---- MODULE Spec2Model ----
(***************************************************************************)
(* A model of main.py (WhatsApp job bot): the eligibility classifier       *)
(* eligible_for_you, the SQLite seen-store (db_init / mark_seen /          *)
(* is_seen), build_reports as run by the webhook and by the daily task,    *)
(* the chunking of a long report in bot_webhook, and scheduler_loop.       *)
(*                                                                         *)
(* Python strings are TLA+ strings; `in` on strings is Contains, and       *)
(* str.lower() is lower.  Python's True / False / None verdict is written  *)
(* "True" / "False" / "None".                                              *)
(***************************************************************************)
EXTENDS Integers, Sequences, FiniteSets, TLC

VARIABLES
    \* classifier harness: the input text (as words) and the returned pair
    words, verdict, reasons,
    \* the SQLite file DB_PATH: whether table seen_jobs exists, and its rows
    tableExists, seen_jobs,
    \* datetime.utcnow() as read by mark_seen
    clock,
    \* the result of the last direct call of mark_seen / is_seen / db_init
    ret,
    \* build_reports, per caller: position, argument, loop index, its lists
    pc, jobs, idx, applicable, not_applicable, unknown, new_applicable, stats,
    \* history: links in the store when the cycle began; links processed by
    \* completed cycles, now and when the cycle began
    startSeen, doneLinks, priorDone,
    \* scheduler_loop: the wall clock, the loop's position and locals, and the
    \* number of times daily_task was started on each day
    now, spc, last_sent_date, today, starts,
    \* bot_webhook: the request (sender, report built for it), the TwiML reply
    \* and the messages pushed through the Twilio client
    w_from, w_report, w_reply, w_pushed

vClassify == <<words, verdict, reasons>>
vStore == <<tableExists, seen_jobs, clock, ret>>
vBuild == <<pc, jobs, idx, applicable, not_applicable, unknown, new_applicable,
            stats, startSeen, doneLinks, priorDone>>

vSched == <<now, spc, last_sent_date, today, starts>>
vWebhook == <<w_from, w_report, w_reply, w_pushed>>

vars == <<vClassify, vStore, vBuild, vSched, vWebhook>>

(***************************************************************************)
(* Bounds of the model.                                                    *)
(***************************************************************************)
MaxWords == 3
MaxJobs == 2
MaxConcJobs == 1
MaxLines == 4
MaxDays == 2
DayTicks == 12
MaxJitter == 1
MaxTaskTicks == 3

(***************************************************************************)
(* String helpers: Python's  kw in t,  any(...),  str.lower().             *)
(***************************************************************************)
Contains(kw, t) ==
    \E i \in 1..(Len(t) - Len(kw) + 1) : SubSeq(t, i, i + Len(kw) - 1) = kw

HasAny(kws, t) == \E k \in 1..Len(kws) : Contains(kws[k], t)

UPPER == "ABCDEFGHIJKLMNOPQRSTUVWXYZ"
LOWER == "abcdefghijklmnopqrstuvwxyz"

LowerChar(c) ==
    IF \E i \in 1..Len(UPPER) : SubSeq(UPPER, i, i) = c
    THEN LET i == CHOOSE k \in 1..Len(UPPER) : SubSeq(UPPER, k, k) = c
         IN  SubSeq(LOWER, i, i)
    ELSE c

RECURSIVE lower(_)
lower(s) ==
    IF Len(s) = 0 THEN ""
    ELSE LowerChar(SubSeq(s, 1, 1)) \o lower(SubSeq(s, 2, Len(s)))

(***************************************************************************)
(* eligible_for_you: the keyword lists, in the order of the source.        *)
(***************************************************************************)
REJECT_WORDS_no_iti ==
    <<"10th", "12th", "diploma", "polytechnic", "12th pass", "matric">>

REJECT_WORDS ==
    <<"10th", "12th", "iti", "diploma", "polytechnic", "12th pass", "matric">>

ANY_GRADUATE_WORDS ==
    <<"any graduate", "any degree", "graduate in any", "bachelor degree in any",
      "degree in any", "graduation in any">>

GRADUATE_WORDS ==
    <<"graduate", "bachelor degree", "bachelor's degree", "degree required",
      "bachelor in">>

is_btech(t) == Contains("b.tech", t) \/ Contains("btech", t) \/ Contains("b.e", t)

BTECH_ECE_WORDS_no_ece ==
    <<"electronics", "electronics & communication", "electronics and communication">>

BTECH_ECE_WORDS ==
    <<"ece", "electronics", "electronics & communication",
      "electronics and communication">>

ANY_BRANCH_WORDS == <<"any branch", "all engineering", "all branches">>

OTHER_BRANCH_WORDS == <<"mechanical", "civil", "chemical", "electrical">>

ECE_WORDS == <<"ece", "electronics", "electronic">>

TECH_ROLE_WORDS ==
    <<"engineer", "scientist", "scientific", "technical", "technical assistant">>

DEGREE_WORDS == <<"degree", "graduate", "bachelor">>

\* The reason strings of the source (its dash is written "-" here).
R_REJECT == "Requires 10th/12th/ITI/Diploma"
R_ANY_GRADUATE == "Open to Any Graduate / Any Degree"
R_GRADUATE == "Requires Graduate / Bachelor's degree"
R_BTECH_ECE == "Specifically mentions ECE / Electronics"
R_ANY_BRANCH == "B.Tech any branch - excluded by preference"
R_OTHER_BRANCH == "Mentions other branch (not ECE)"
R_BTECH_ONLY == "B.Tech mentioned without ECE - excluded by preference"
R_ECE == "Mentions ECE / Electronics"
R_TECH == "Technical post requiring degree/graduate"
R_UNKNOWN == "Could not detect confidently"

\* The body of  if "b.tech" in t or ... :  as the comment on its last branch
\* words it ("treat as unknown").
btech_branch_unknown(t) ==
    IF HasAny(BTECH_ECE_WORDS, t) THEN <<"True", <<R_BTECH_ECE>>>>
    ELSE IF HasAny(ANY_BRANCH_WORDS, t) THEN <<"False", <<R_ANY_BRANCH>>>>
    ELSE IF HasAny(OTHER_BRANCH_WORDS, t) THEN <<"False", <<R_OTHER_BRANCH>>>>
    ELSE <<"None", <<R_UNKNOWN>>>>

btech_branch(t) ==
    IF HasAny(BTECH_ECE_WORDS, t) THEN <<"True", <<R_BTECH_ECE>>>>
    ELSE IF HasAny(ANY_BRANCH_WORDS, t) THEN <<"False", <<R_ANY_BRANCH>>>>
    ELSE IF HasAny(OTHER_BRANCH_WORDS, t) THEN <<"False", <<R_OTHER_BRANCH>>>>
    ELSE <<"False", <<R_BTECH_ONLY>>>>

\* Returns <<verdict, reasons>>.
eligible_for_you(text) ==
    LET t == lower(text) IN
    IF HasAny(REJECT_WORDS, t) THEN <<"False", <<R_REJECT>>>>
    ELSE IF HasAny(ANY_GRADUATE_WORDS, t) THEN <<"True", <<R_ANY_GRADUATE>>>>
    ELSE IF HasAny(GRADUATE_WORDS, t) THEN <<"True", <<R_GRADUATE>>>>
    ELSE IF is_btech(t) THEN btech_branch(t)
    ELSE IF HasAny(ECE_WORDS, t) THEN <<"True", <<R_ECE>>>>
    ELSE IF HasAny(TECH_ROLE_WORDS, t) /\ HasAny(DEGREE_WORDS, t)
         THEN <<"True", <<R_TECH>>>>
    ELSE <<"None", <<R_UNKNOWN>>>>

(***************************************************************************)
(* The classifier's inputs: texts of up to MaxWords words joined by one    *)
(* space.  Multi-word keywords ("any graduate", "any branch") arise from   *)
(* adjacent words, "iti" hides in "Position", and the empty word gives the *)
(* empty and the whitespace-only text.                                     *)
(***************************************************************************)
Vocabulary ==
    {"", "10th", "Position", "Any", "Graduate", "Degree", "Branch", "B.Tech",
     "B.E", "ECE", "Electronic", "Mechanical", "Engineer"}

RECURSIVE Join(_)
Join(ws) ==
    IF Len(ws) = 0 THEN ""
    ELSE IF Len(ws) = 1 THEN ws[1]
    ELSE ws[1] \o " " \o Join(Tail(ws))

text == Join(words)

InitClassify ==
    /\ words = <<>>
    /\ verdict = "unset"
    /\ reasons = <<>>

AppendWord ==
    /\ Len(words) < MaxWords
    /\ \E w \in Vocabulary : words' = Append(words, w)
    /\ verdict' = "unset"
    /\ reasons' = <<>>
    /\ UNCHANGED <<vStore, vBuild, vSched, vWebhook>>

Classify ==
    /\ verdict = "unset"
    /\ LET r == eligible_for_you(text) IN
         /\ verdict' = r[1]
         /\ reasons' = r[2]
    /\ UNCHANGED <<words, vStore, vBuild, vSched, vWebhook>>

(***************************************************************************)
(* The seen-store: table seen_jobs(id AUTOINCREMENT, link UNIQUE, title,    *)
(* date_added) in the SQLite file.  Importing the module creates nothing;  *)
(* only db_init creates the table.                                         *)
(***************************************************************************)
Procs == {"webhook", "daily"}
Links == {"j.in/1", "j.in/2"}
\* Postings as aggregate_jobs makes them: "[source] title" and a link.  Two
\* differ only in the title's letter case; one link carries titles of each
\* verdict.
Postings ==
    {[title |-> "[BEL] ECE Engineer", link |-> "j.in/1"],
     [title |-> "[BEL] ece engineer", link |-> "j.in/1"],
     [title |-> "[BEL] ITI Fitter", link |-> "j.in/1"],
     [title |-> "[BEL] ECE Engineer", link |-> "j.in/2"],
     [title |-> "[BEL] Clerk", link |-> "j.in/2"]}

\* What a direct call gave: its name and arguments, and "ok" (returned None),
\* "True" / "False" (is_seen), or "raised".
NoRet == [op |-> "none", link |-> "", title |-> "", out |-> ""]
Ret(op, link, title, out) == [op |-> op, link |-> link, title |-> title, out |-> out]

InitStore ==
    /\ tableExists = FALSE
    /\ seen_jobs = {}
    /\ clock = 1
    /\ ret = NoRet

\* SELECT 1 FROM seen_jobs WHERE link = ? LIMIT 1, on the rows of the table.
is_seen_never(rows, link) == FALSE

is_seen_rows(rows, link) == \E r \in rows : r.link = link

\* INSERT INTO seen_jobs ...; the UNIQUE constraint on link raises
\* IntegrityError, which mark_seen swallows.
mark_seen_replace(rows, link, title, stamp) ==
    {r \in rows : r.link # link} \cup
        {[id |-> Cardinality(rows) + 1, link |-> link, title |-> title,
          date_added |-> stamp]}

mark_seen_no_commit(rows, link, title, stamp) == rows

mark_seen_rows(rows, link, title, stamp) ==
    IF \E r \in rows : r.link = link
    THEN rows
    ELSE rows \cup {[id |-> Cardinality(rows) + 1, link |-> link,
                     title |-> title, date_added |-> stamp]}

\* db_init: CREATE TABLE IF NOT EXISTS.
db_init ==
    /\ tableExists' = TRUE
    /\ ret' = Ret("db_init", "", "", "ok")
    /\ UNCHANGED <<seen_jobs, clock, vClassify, vBuild, vSched, vWebhook>>

\* A direct call mark_seen(link, title).  Without the table the INSERT raises
\* OperationalError, which is not caught.
call_mark_seen(link, title) ==
    /\ IF tableExists
       THEN /\ seen_jobs' = mark_seen_rows(seen_jobs, link, title, clock)
            /\ ret' = Ret("mark_seen", link, title, "ok")
       ELSE /\ seen_jobs' = seen_jobs
            /\ ret' = Ret("mark_seen", link, title, "raised")
    /\ clock' = IF seen_jobs' # seen_jobs THEN clock + 1 ELSE clock
    /\ UNCHANGED <<tableExists, vClassify, vBuild, vSched, vWebhook>>

\* A direct call is_seen(link).
call_is_seen(link) ==
    /\ ret' = Ret("is_seen", link, "",
                  IF ~tableExists THEN "raised"
                  ELSE IF is_seen_rows(seen_jobs, link) THEN "True" ELSE "False")
    /\ UNCHANGED <<tableExists, seen_jobs, clock, vClassify, vBuild, vSched, vWebhook>>

(***************************************************************************)
(* build_reports(jobs), run by bot_webhook ("webhook") and by daily_task   *)
(* ("daily").  Each call of is_seen and of mark_seen opens its own         *)
(* connection, so each is one step; the work on local lists around a call  *)
(* belongs to the step of that call.                                       *)
(***************************************************************************)
\* aggregate_jobs keeps the first posting of each key (lowercased title with
\* whitespace runs collapsed, link); the titles here have single spaces.
dedupe_key == [j \in Postings |-> <<lower(j.title), j.link>>]

Deduped(js) ==
    \A a, b \in 1..Len(js) : (a # b) => dedupe_key[js[a]] # dedupe_key[js[b]]

JobLists(max) ==
    {js \in UNION {[1..n -> Postings] : n \in 0..max} : Deduped(js)}

\* The lists a sequential caller, and each concurrent caller, may pass.
SeqJobLists == JobLists(MaxJobs)
ConcJobLists == JobLists(MaxConcJobs)

\* eligible_for_you(f"{j['title']} {j['link']}") for each posting.
classify == [j \in Postings |-> eligible_for_you(j.title \o " " \o j.link)]

NoStats == [total |-> -1]

InitBuild ==
    /\ pc = [p \in Procs |-> "idle"]
    /\ jobs = [p \in Procs |-> <<>>]
    /\ idx = [p \in Procs |-> 0]
    /\ applicable = [p \in Procs |-> <<>>]
    /\ not_applicable = [p \in Procs |-> <<>>]
    /\ unknown = [p \in Procs |-> <<>>]
    /\ new_applicable = [p \in Procs |-> <<>>]
    /\ stats = [p \in Procs |-> NoStats]
    /\ startSeen = [p \in Procs |-> {}]
    /\ doneLinks = {}
    /\ priorDone = [p \in Procs |-> {}]

SeenLinks == {r.link : r \in seen_jobs}
LinksOf(es) == {es[k].link : k \in 1..Len(es)}

\* The end of the loop: the report is rendered from the four lists and the
\* counts are returned with it.
Finish(p, app, napp, unk, new) ==
    /\ pc' = [pc EXCEPT ![p] = "done"]
    /\ stats' = [stats EXCEPT ![p] =
                   [total |-> Len(jobs[p]), applicable |-> Len(app),
                    not_applicable |-> Len(napp), unknown |-> Len(unk),
                    new_applicable |-> Len(new)]]
    /\ doneLinks' = doneLinks \cup LinksOf(jobs[p])

\* After posting idx: the next posting, or the end of the loop.
Advance(p, app, napp, unk, new) ==
    IF idx[p] < Len(jobs[p])
    THEN /\ idx' = [idx EXCEPT ![p] = idx[p] + 1]
         /\ pc' = [pc EXCEPT ![p] = "check"]
         /\ UNCHANGED <<stats, doneLinks>>
    ELSE /\ idx' = idx
         /\ Finish(p, app, napp, unk, new)

\* build_reports is entered with a list from aggregate_jobs.
Begin(p, js) ==
    /\ pc[p] = "idle"
    /\ ret' = NoRet
    /\ jobs' = [jobs EXCEPT ![p] = js]
    /\ startSeen' = [startSeen EXCEPT ![p] = SeenLinks]
    /\ priorDone' = [priorDone EXCEPT ![p] = doneLinks]
    /\ IF Len(js) = 0
       THEN /\ idx' = idx
            /\ pc' = [pc EXCEPT ![p] = "done"]
            /\ stats' = [stats EXCEPT ![p] =
                           [total |-> 0, applicable |-> 0, not_applicable |-> 0,
                            unknown |-> 0, new_applicable |-> 0]]
            /\ doneLinks' = doneLinks
       ELSE /\ idx' = [idx EXCEPT ![p] = 1]
            /\ pc' = [pc EXCEPT ![p] = "check"]
            /\ UNCHANGED <<stats, doneLinks>>
    /\ UNCHANGED <<applicable, not_applicable, unknown, new_applicable,
                   tableExists, seen_jobs, clock, vClassify, vSched, vWebhook>>

\* Classify posting idx, append its entry to its list, and call is_seen.
Check(p) ==
    /\ pc[p] = "check"
    /\ LET j == jobs[p][idx[p]]
           r == classify[j]
           entry == [title |-> j.title, link |-> j.link, reasons |-> r[2]]
           app == IF r[1] = "True" THEN Append(applicable[p], entry)
                  ELSE applicable[p]
           napp == IF r[1] = "False" THEN Append(not_applicable[p], entry)
                   ELSE not_applicable[p]
           unk == IF r[1] = "None" THEN Append(unknown[p], entry)
                  ELSE unknown[p]
       IN
       /\ applicable' = [applicable EXCEPT ![p] = app]
       /\ not_applicable' = [not_applicable EXCEPT ![p] = napp]
       /\ unknown' = [unknown EXCEPT ![p] = unk]
       /\ IF ~tableExists
          THEN \* is_seen raises OperationalError; nothing catches it
               /\ pc' = [pc EXCEPT ![p] = "raised"]
               /\ UNCHANGED <<new_applicable, idx, stats, doneLinks>>
          ELSE IF is_seen_rows(seen_jobs, j.link)
          THEN /\ UNCHANGED new_applicable
               /\ Advance(p, app, napp, unk, new_applicable[p])
          ELSE /\ new_applicable' =
                     IF r[1] = "True"
                     THEN [new_applicable EXCEPT ![p] = Append(@, entry)]
                     ELSE new_applicable
               /\ pc' = [pc EXCEPT ![p] = "mark"]
               /\ UNCHANGED <<idx, stats, doneLinks>>
    /\ UNCHANGED <<jobs, startSeen, priorDone, vStore, vClassify, vSched, vWebhook>>

\* mark_seen(j['link'], j['title']) for posting idx.
Mark(p) ==
    /\ pc[p] = "mark"
    /\ LET j == jobs[p][idx[p]] IN
         seen_jobs' = mark_seen_rows(seen_jobs, j.link, j.title, clock)
    /\ clock' = IF seen_jobs' # seen_jobs THEN clock + 1 ELSE clock
    /\ Advance(p, applicable[p], not_applicable[p], unknown[p], new_applicable[p])
    /\ UNCHANGED <<jobs, applicable, not_applicable, unknown, new_applicable,
                   startSeen, priorDone, tableExists, ret, vClassify, vSched, vWebhook>>

\* build_reports returns, or its exception reaches the caller.
Return(p) ==
    /\ pc[p] \in {"done", "raised"}
    /\ pc' = [pc EXCEPT ![p] = "idle"]
    /\ jobs' = [jobs EXCEPT ![p] = <<>>]
    /\ idx' = [idx EXCEPT ![p] = 0]
    /\ applicable' = [applicable EXCEPT ![p] = <<>>]
    /\ not_applicable' = [not_applicable EXCEPT ![p] = <<>>]
    /\ unknown' = [unknown EXCEPT ![p] = <<>>]
    /\ new_applicable' = [new_applicable EXCEPT ![p] = <<>>]
    /\ stats' = [stats EXCEPT ![p] = NoStats]
    /\ startSeen' = [startSeen EXCEPT ![p] = {}]
    /\ priorDone' = [priorDone EXCEPT ![p] = {}]
    /\ UNCHANGED <<doneLinks, vStore, vClassify, vSched, vWebhook>>

AllIdle == \A p \in Procs : pc[p] = "idle"

\* One caller at a time: any sequence of db_init, mark_seen, is_seen and
\* build_reports calls, each running to its end before the next.
NextSeq ==
    \/ AllIdle /\ db_init
    \/ AllIdle /\ \E j \in Postings : call_mark_seen(j.link, j.title)
    \/ AllIdle /\ \E l \in Links : call_is_seen(l)
    \/ AllIdle /\ \E p \in Procs, js \in SeqJobLists : Begin(p, js)
    \/ \E p \in Procs : Check(p)
    \/ \E p \in Procs : Mark(p)
    \/ \E p \in Procs : Return(p)

\* The webhook's and the daily task's build_reports running at once (Flask
\* serves requests while the scheduler thread runs), step by step.
NextConc ==
    \/ db_init
    \/ \E p \in Procs, js \in ConcJobLists : Begin(p, js)
    \/ \E p \in Procs : Check(p)
    \/ \E p \in Procs : Mark(p)
    \/ \E p \in Procs : Return(p)

(***************************************************************************)
(* scheduler_loop.  Time is counted in ticks of 10 seconds; a day of the   *)
(* model has DayTicks ticks, and now_hm == SEND_TIME holds during the       *)
(* MINUTE ticks that start at SEND_TICK.  A sleep lasts its argument or a  *)
(* little longer; daily_task takes any time and returns or raises.         *)
(***************************************************************************)
SLEEP_OK == 3
SLEEP_ERR == 1
MINUTE == 6
SEND_TICK == 2

Horizon == MaxDays * DayTicks - 1
Days == 1..MaxDays
date(t) == (t \div DayTicks) + 1
now_hm_is_send_time(t) ==
    (t % DayTicks) >= SEND_TICK /\ (t % DayTicks) < SEND_TICK + MINUTE

None == 0

InitSched ==
    /\ now = 0
    /\ spc = "poll"
    /\ last_sent_date = None
    /\ today = None
    /\ starts = [d \in Days |-> 0]

\* One pass of the try block up to the call of daily_task or to the sleep.
Poll ==
    /\ spc = "poll"
    /\ IF now_hm_is_send_time(now) /\ last_sent_date # date(now)
       THEN /\ today' = date(now)
            /\ starts' = [starts EXCEPT ![date(now)] = @ + 1]
            /\ spc' = "task"
       ELSE /\ today' = IF now_hm_is_send_time(now) THEN date(now) ELSE today
            /\ starts' = starts
            /\ spc' = "sleep30"
    /\ UNCHANGED <<now, last_sent_date, vClassify, vStore, vBuild, vWebhook>>

\* daily_task() returns after d ticks: last_sent_date = today.
TaskReturns(d) ==
    /\ spc = "task"
    /\ now + d <= Horizon
    /\ now' = now + d
    /\ last_sent_date' = today
    /\ spc' = "sleep30"
    /\ UNCHANGED <<today, starts, vClassify, vStore, vBuild, vWebhook>>

\* daily_task() raises after d ticks: control goes to the except clause.
TaskRaises(d) ==
    /\ spc = "task"
    /\ now + d <= Horizon
    /\ now' = now + d
    /\ spc' = "sleep10"
    /\ UNCHANGED <<last_sent_date, today, starts, vClassify, vStore, vBuild,
                   vWebhook>>

\* time.sleep(30) at the end of the try block.
Sleep30(j) ==
    /\ spc = "sleep30"
    /\ now + SLEEP_OK + j <= Horizon
    /\ now' = now + SLEEP_OK + j
    /\ spc' = "poll"
    /\ UNCHANGED <<last_sent_date, today, starts, vClassify, vStore, vBuild,
                   vWebhook>>

\* time.sleep(10) in the except clause.
Sleep10(j) ==
    /\ spc = "sleep10"
    /\ now + SLEEP_ERR + j <= Horizon
    /\ now' = now + SLEEP_ERR + j
    /\ spc' = "poll"
    /\ UNCHANGED <<last_sent_date, today, starts, vClassify, vStore, vBuild,
                   vWebhook>>

NextSched ==
    \/ Poll
    \/ \E d \in 0..MaxTaskTicks : TaskReturns(d)
    \/ \E d \in 0..MaxTaskTicks : TaskRaises(d)
    \/ \E j \in 0..MaxJitter : Sleep30(j)
    \/ \E j \in 0..MaxJitter : Sleep10(j)

(***************************************************************************)
(* bot_webhook.  A report is the sequence of its lines as                  *)
(* report.splitlines(True) gives them; a line is its number and its        *)
(* length in characters, line ending included.  A chunk "".join(cur) is    *)
(* the sequence of its lines.                                              *)
(***************************************************************************)
MAX_CHUNK == 1500

Senders == {"whatsapp:+91", "whatsapp:+1"}
LineLengths == {1, 700, 800, 1501}
Reports ==
    UNION {{[k \in 1..n |-> [n |-> k, len |-> f[k]]] : f \in [1..n -> LineLengths]}
             : n \in 1..MaxLines}

RECURSIVE len(_)
len(lines) == IF lines = <<>> THEN 0 ELSE Head(lines).len + len(Tail(lines))

\* The for loop over the lines and the flush of cur after it.
RECURSIVE split_lines(_, _, _, _)
split_lines(rest, parts, cur, cur_len) ==
    IF rest = <<>>
    THEN IF cur # <<>> THEN Append(parts, cur) ELSE parts
    ELSE LET line == Head(rest) IN
         IF cur_len + line.len > MAX_CHUNK /\ cur # <<>>
         THEN split_lines(Tail(rest), Append(parts, cur), <<line>>, line.len)
         ELSE split_lines(Tail(rest), parts, Append(cur, line), cur_len + line.len)

USAGE_HINT == <<[n |-> 0, len |-> 78]>>

InitWebhook ==
    /\ w_from = "none"
    /\ w_report = <<>>
    /\ w_reply = <<>>
    /\ w_pushed = <<>>

\* The pushes of parts[1:]: messages.create in a try block, a failure skipped.
RECURSIVE push_parts(_, _, _, _)
push_parts(parts, k, to, failing) ==
    IF k > Len(parts) THEN <<>>
    ELSE (IF k \in failing THEN <<>> ELSE <<[to |-> to, body |-> parts[k]]>>)
         \o push_parts(parts, k + 1, to, failing)

\* A request whose body asks for the report; `report` is what build_reports
\* returned, twilio_client is set or None, and the sends of the chunks
\* numbered in `failing` raise.
bot_webhook_jobs(from, report, twilio_client, failing) ==
    /\ w_from = "none"
    /\ w_from' = from
    /\ w_report' = report
    /\ IF len(report) <= MAX_CHUNK
       THEN /\ w_reply' = report
            /\ w_pushed' = <<>>
       ELSE LET parts == split_lines(report, <<>>, <<>>, 0) IN
            /\ w_reply' = parts[1]
            /\ w_pushed' = IF twilio_client
                           THEN push_parts(parts, 2, from, failing)
                           ELSE <<>>
    /\ UNCHANGED <<vClassify, vStore, vBuild, vSched>>

\* Any other request: the usage hint.
bot_webhook_other(from) ==
    /\ w_from = "none"
    /\ w_from' = from
    /\ w_report' = <<>>
    /\ w_reply' = USAGE_HINT
    /\ w_pushed' = <<>>
    /\ UNCHANGED <<vClassify, vStore, vBuild, vSched>>

\* The response and the pushed messages are out; the next request may come.
request_done ==
    /\ w_from # "none"
    /\ w_from' = "none"
    /\ w_report' = <<>>
    /\ w_reply' = <<>>
    /\ w_pushed' = <<>>
    /\ UNCHANGED <<vClassify, vStore, vBuild, vSched>>

NextWebhook ==
    \/ \E from \in Senders, report \in Reports, twilio_client \in BOOLEAN,
          failing \in SUBSET (2..MaxLines) :
            bot_webhook_jobs(from, report, twilio_client, failing)
    \/ \E from \in Senders : bot_webhook_other(from)
    \/ request_done

Init == InitClassify /\ InitStore /\ InitBuild /\ InitSched /\ InitWebhook

NextClassify == AppendWord \/ Classify

SpecClassify == Init /\ [][NextClassify]_vars

SpecSeq == Init /\ [][NextSeq]_vars

SpecConc == Init /\ [][NextConc]_vars

SpecSched == Init /\ [][NextSched]_vars

SpecWebhook == Init /\ [][NextWebhook]_vars

(***************************************************************************)
(* Claims about build_reports and the seen-store.                          *)
(***************************************************************************)
EntryIn(e, es) == \E k \in 1..Len(es) : es[k] = e

\* C1: at every point of a build_reports cycle, every entry of new_applicable
\* is an entry of applicable, and none has a link that was in the seen-store
\* when the cycle began.
C1_NewSubsetUnseen ==
    \A p \in Procs : \A k \in 1..Len(new_applicable[p]) :
        /\ EntryIn(new_applicable[p][k], applicable[p])
        /\ new_applicable[p][k].link \notin startSeen[p]

\* A finished cycle that began with a seen link, with an applicable posting
\* left out of new_applicable and another one in it.
C1_Witness ==
    \E p \in Procs :
        /\ pc[p] = "done"
        /\ startSeen[p] # {}
        /\ Len(new_applicable[p]) >= 1
        /\ Len(applicable[p]) > Len(new_applicable[p])

\* C2: a link is in the new_applicable list of at most one of the two
\* report generations.
C2_AtMostOneNew ==
    \A p, q \in Procs :
        (p # q) => LinksOf(new_applicable[p]) \cap LinksOf(new_applicable[q]) = {}

\* C3: the seen-store is append-only: one row per link; a row, once there,
\* stays as it is; a link is_seen finds is found ever after; mark_seen on a
\* link that is present raises nothing and changes no row.
C3_AppendOnly ==
    [][ /\ \A r1, r2 \in seen_jobs' : (r1.link = r2.link) => (r1 = r2)
        /\ seen_jobs \subseteq seen_jobs'
        /\ \A l \in Links :
              is_seen_rows(seen_jobs, l) => is_seen_rows(seen_jobs', l)
        /\ \A j \in Postings :
              (call_mark_seen(j.link, j.title) /\ is_seen_rows(seen_jobs, j.link))
                 => (ret'.out = "ok" /\ seen_jobs' = seen_jobs)
      ]_vars

\* mark_seen has returned for a link whose row carries another title: the
\* call found the link present.
C3_Witness ==
    /\ ret.op = "mark_seen"
    /\ ret.out = "ok"
    /\ \E r \in seen_jobs :
          r.link = ret.link /\ r.title # ret.title /\ r.date_added < clock - 1

\* C4: when a cycle has completed, the link of every posting it processed is
\* in the seen-store; and no cycle has in new_applicable a link that a cycle
\* completed before it began had processed.
C4_ProcessedLinksSeen ==
    \A p \in Procs :
        /\ (pc[p] = "done") => (LinksOf(jobs[p]) \subseteq SeenLinks)
        /\ LinksOf(new_applicable[p]) \cap priorDone[p] = {}

\* A later cycle classifies as applicable a posting whose link an earlier
\* cycle processed under a title that differs (in letter case or altogether),
\* and reports nothing new.
C4_Witness ==
    \E p \in Procs :
        /\ pc[p] = "done"
        /\ Len(applicable[p]) >= 1
        /\ stats[p].new_applicable = 0
        /\ \E k \in 1..Len(applicable[p]) : \E r \in seen_jobs :
              /\ applicable[p][k].link \in priorDone[p]
              /\ r.link = applicable[p][k].link
              /\ r.title # applicable[p][k].title
              /\ lower(r.title) = lower(applicable[p][k].title)

\* C9: a cycle ends with a report and the counts for the whole posting list,
\* also when is_seen or mark_seen raised a storage error during it.
C9_ReportDespiteStorageError ==
    \A p \in Procs :
        (pc[p] \in {"done", "raised"}) =>
            (stats[p] # NoStats /\ stats[p].total = Len(jobs[p]))

(***************************************************************************)
(* The rule table of the classifier as the specification words it, used to *)
(* state the claims about eligible_for_you.                                *)
(***************************************************************************)
FloorKeywords == {"10th", "12th", "iti", "diploma", "polytechnic", "matric"}
AnyGraduateKeywords ==
    {"any graduate", "any degree", "graduate in any", "bachelor degree in any",
     "degree in any", "graduation in any"}
GenericDegreeKeywords ==
    {"graduate", "bachelor degree", "bachelor's degree", "degree required",
     "bachelor in"}
BTechKeywords == {"b.tech", "btech", "b.e"}
BranchEceKeywords == {"ece", "electronics"}
AnyBranchKeywords == {"any branch", "all engineering", "all branches"}
OtherBranchKeywords == {"mechanical", "civil", "chemical", "electrical"}
BareEceKeywords == {"ece", "electronics", "electronic"}
TechRoleKeywords ==
    {"engineer", "scientist", "scientific", "technical", "technical assistant"}
DegreeKeywords == {"degree", "graduate", "bachelor"}

Mentions(S, t) == \E k \in S : Contains(k, t)

\* Rows 1, 2, 3, 4a, 4b, 4c, 4d, 5, 6, 7 of the table, numbered 1..10.
RowHolds(i, t) ==
    CASE i = 1 -> Mentions(FloorKeywords, t)
      [] i = 2 -> Mentions(AnyGraduateKeywords, t)
      [] i = 3 -> Mentions(GenericDegreeKeywords, t)
      [] i = 4 -> Mentions(BTechKeywords, t) /\ Mentions(BranchEceKeywords, t)
      [] i = 5 -> Mentions(BTechKeywords, t) /\ Mentions(AnyBranchKeywords, t)
      [] i = 6 -> Mentions(BTechKeywords, t) /\ Mentions(OtherBranchKeywords, t)
      [] i = 7 -> Mentions(BTechKeywords, t)
      [] i = 8 -> Mentions(BareEceKeywords, t)
      [] i = 9 -> Mentions(TechRoleKeywords, t) /\ Mentions(DegreeKeywords, t)
      [] i = 10 -> TRUE

RowVerdict ==
    <<"False", "True", "True", "True", "False", "False", "False", "True", "True",
      "None">>

RowReason ==
    <<R_REJECT, R_ANY_GRADUATE, R_GRADUATE, R_BTECH_ECE, R_ANY_BRANCH,
      R_OTHER_BRANCH, R_BTECH_ONLY, R_ECE, R_TECH, R_UNKNOWN>>

FirstRow(t) ==
    CHOOSE i \in 1..10 : RowHolds(i, t) /\ \A j \in 1..(i - 1) : ~RowHolds(j, t)

classified == verdict # "unset"

\* C6: a text that contains a qualification-floor keyword (10th, 12th, iti,
\* diploma, polytechnic, matric) in any letter case is classified NotEligible
\* ("False"), whatever other keywords it contains.
C6_FloorDominates ==
    (classified /\ Mentions(FloorKeywords, lower(text))) => verdict = "False"

\* A floor keyword hidden in "Position", next to the open-eligibility phrase.
C6_Witness ==
    /\ classified
    /\ Contains("iti", lower(text))
    /\ Contains("any graduate", lower(text))
    /\ verdict = "False"

\* C7 as stated: "b.tech" with an ECE keyword is Eligible; "b.tech" with
\* "mechanical" and no ECE keyword is NotEligible.
C7_AsStated ==
    classified =>
        LET t == lower(text) IN
        /\ (Contains("b.tech", t) /\ Mentions(BranchEceKeywords, t))
               => verdict = "True"
        /\ (Contains("b.tech", t) /\ Contains("mechanical", t)
               /\ ~Mentions(BranchEceKeywords, t))
               => verdict = "False"

\* C7 amended: "b.tech" with "ece" or "electronics" and no qualification-floor
\* keyword is Eligible; "b.tech" with "mechanical", neither "ece" nor
\* "electronics", and none of the rule 2 / rule 3 degree phrases is NotEligible.
C7_BTechBranch ==
    classified =>
        LET t == lower(text) IN
        /\ (Contains("b.tech", t) /\ Mentions(BranchEceKeywords, t)
               /\ ~Mentions(FloorKeywords, t))
               => verdict = "True"
        /\ (Contains("b.tech", t) /\ Contains("mechanical", t)
               /\ ~Mentions(BranchEceKeywords, t)
               /\ ~Mentions(AnyGraduateKeywords \cup GenericDegreeKeywords, t))
               => verdict = "False"

\* "B.Tech ECE" decided by the nested branch check itself (no rule 1-3 keyword).
C7_Witness ==
    /\ classified
    /\ Contains("b.tech", lower(text))
    /\ Contains("ece", lower(text))
    /\ ~Mentions(FloorKeywords \cup AnyGraduateKeywords \cup GenericDegreeKeywords,
                 lower(text))
    /\ verdict = "True"
    /\ reasons = <<R_BTECH_ECE>>

C5_OncePerDay == \A d \in Days : starts[d] <= 1

RECURSIVE Flatten(_)
Flatten(chunks) ==
    IF chunks = <<>> THEN <<>> ELSE Head(chunks) \o Flatten(Tail(chunks))

\* C10: a report longer than 1500 characters goes out as non-empty chunks of
\* whole lines, each at most 1500 characters long, that concatenate to the
\* report: the first is the reply, the others are pushed in order to the
\* sender of the request.
C10_ChunkedDelivery ==
    (len(w_report) > MAX_CHUNK) =>
        LET chunks == <<w_reply>> \o [k \in 1..Len(w_pushed) |-> w_pushed[k].body] IN
        /\ \A k \in 1..Len(chunks) :
              chunks[k] # <<>> /\ len(chunks[k]) <= MAX_CHUNK
        /\ Flatten(chunks) = w_report
        /\ \A k \in 1..Len(w_pushed) : w_pushed[k].to = w_from

====
